---- MODULE Spec2Model ----
(***************************************************************************)
(* Hacker News /newest validation run: collect exactly COUNT unique items  *)
(* across "More" pagination, then check that their relative ages are       *)
(* non-decreasing down the list.                                           *)
(*                                                                         *)
(* Text is a sequence of one-character strings, so that the age parser is  *)
(* modelled by what its regular expression does.                           *)
(***************************************************************************)
EXTENDS Integers, Sequences, FiniteSets, TLC

(***************************************************************************)
(* Bounds of the model.                                                    *)
(***************************************************************************)
\* largest COUNT a run is configured with
MaxCount == 2
\* largest number of rows one page yields
MaxBatch == 2
\* largest number of "More" navigations a run performs
MaxPages == 1
\* longest item sequence handed to the validator on its own
MaxLen == 4

(***************************************************************************)
(* Text helpers.                                                           *)
(***************************************************************************)
\* JavaScript null, for an age that did not parse (ages are >= 0)
Null == -1

WhiteSpace == {" ", "\t", "\n"}

Digits == {"0", "1", "2", "3", "4", "5", "6", "7", "8", "9"}

DigitValue(c) ==
  CASE c = "0" -> 0 [] c = "1" -> 1 [] c = "2" -> 2 [] c = "3" -> 3
    [] c = "4" -> 4 [] c = "5" -> 5 [] c = "6" -> 6 [] c = "7" -> 7
    [] c = "8" -> 8 [] c = "9" -> 9

\* String.prototype.toLowerCase on one character (the letters the unit words use)
toLowerCase(c) ==
  CASE c = "A" -> "a" [] c = "D" -> "d" [] c = "E" -> "e" [] c = "G" -> "g"
    [] c = "H" -> "h" [] c = "I" -> "i" [] c = "M" -> "m" [] c = "N" -> "n"
    [] c = "O" -> "o" [] c = "R" -> "r" [] c = "S" -> "s" [] c = "T" -> "t"
    [] c = "U" -> "u" [] c = "Y" -> "y" [] OTHER -> c

\* number of leading characters of s that are in set S
RECURSIVE LeadingRun(_, _)
LeadingRun(s, S) ==
  IF s = <<>> \/ Head(s) \notin S THEN 0 ELSE 1 + LeadingRun(Tail(s), S)

\* number of trailing characters of s that are in set S
RECURSIVE TrailingRun(_, _)
TrailingRun(s, S) ==
  IF s = <<>> \/ s[Len(s)] \notin S THEN 0
  ELSE 1 + TrailingRun(SubSeq(s, 1, Len(s) - 1), S)

\* String.prototype.trim
trim(s) ==
  LET a == LeadingRun(s, WhiteSpace)
  IN  IF a = Len(s) THEN <<>>
      ELSE SubSeq(s, a + 1, Len(s) - TrailingRun(s, WhiteSpace))

(***************************************************************************)
(* JavaScript numbers.  An age is a non-negative integer held in a double. *)
(* So that the 53-bit significand of a double can be modelled, such a      *)
(* number is written here in limbs of LimbBits bits, lowest limb first and *)
(* without high zero limbs (zero is the empty sequence).                   *)
(***************************************************************************)
\* bits of the significand of a double
SignificandBits == 53

\* bits of one limb
LimbBits == 24

Limb == 2 ^ LimbBits

\* the number of the model that a small limb sequence denotes
RECURSIVE ValueOf(_)
ValueOf(a) == IF a = <<>> THEN 0 ELSE Head(a) + Limb * ValueOf(Tail(a))

\* a * k + c, exactly, for small natural numbers k and c
RECURSIVE MulAdd(_, _, _)
MulAdd(a, k, c) ==
  IF a = <<>> THEN (IF c = 0 THEN <<>> ELSE <<c>>)
  ELSE LET t == Head(a) * k + c
       IN  <<t % Limb>> \o MulAdd(Tail(a), k, t \div Limb)

\* a + b + c, exactly, for a carry c
RECURSIVE Add(_, _, _)
Add(a, b, c) ==
  IF a = <<>> /\ b = <<>> THEN (IF c = 0 THEN <<>> ELSE <<c>>)
  ELSE LET x == IF a = <<>> THEN 0 ELSE Head(a)
           y == IF b = <<>> THEN 0 ELSE Head(b)
           t == x + y + c
       IN  <<t % Limb>> \o Add(IF a = <<>> THEN a ELSE Tail(a),
                               IF b = <<>> THEN b ELSE Tail(b), t \div Limb)

\* the integer a run of decimal digits denotes, exactly
RECURSIVE FromDigits(_)
FromDigits(ds) ==
  IF ds = <<>> THEN <<>>
  ELSE MulAdd(FromDigits(SubSeq(ds, 1, Len(ds) - 1)), 10, DigitValue(ds[Len(ds)]))

\* number of bits of a: the least n with a < 2^n
BitLength(a) ==
  IF a = <<>> THEN 0
  ELSE LimbBits * (Len(a) - 1)
         + (CHOOSE n \in 1..LimbBits : 2 ^ (n - 1) <= a[Len(a)] /\ a[Len(a)] < 2 ^ n)

\* bit i of a, the lowest being bit 0
BitAt(a, i) == (a[(i \div LimbBits) + 1] \div 2 ^ (i % LimbBits)) % 2

\* 2^n
PowerOfTwo(n) ==
  [j \in 1..((n \div LimbBits) + 1) |->
     IF j = (n \div LimbBits) + 1 THEN 2 ^ (n % LimbBits) ELSE 0]

\* the double nearest to an integer: the top 53 bits are kept and the rest
\* is rounded to nearest, ties to even
RoundToDouble(a) ==
  IF BitLength(a) <= SignificandBits THEN a
  ELSE LET drop == BitLength(a) - SignificandBits
           w    == drop \div LimbBits
           r    == drop % LimbBits
           kept == [j \in 1..Len(a) |->
                      IF j <= w THEN 0
                      ELSE IF j = w + 1 THEN a[j] - (a[j] % 2 ^ r)
                      ELSE a[j]]
           half == BitAt(a, drop - 1) = 1
           rest == \E i \in 0..(drop - 2) : BitAt(a, i) = 1
           up   == half /\ (rest \/ BitAt(a, drop) = 1)
       IN  IF up THEN Add(kept, PowerOfTwo(drop), 0) ELSE kept

\* Number(m[1]) on a run of decimal digits
Number(ds) == RoundToDouble(FromDigits(ds))

\* x * k on doubles
Times(x, k) == RoundToDouble(MulAdd(x, k, 0))

\* w (lower case) is a prefix of s, letter case ignored (the /i flag)
PrefixCI(w, s) ==
  /\ Len(s) >= Len(w)
  /\ \A k \in 1..Len(w) : toLowerCase(s[k]) = w[k]

\* the alternation (minute|minutes|hour|hours|day|days)
UnitWords ==
  { <<"m","i","n","u","t","e">>, <<"m","i","n","u","t","e","s">>,
    <<"h","o","u","r">>, <<"h","o","u","r","s">>,
    <<"d","a","y">>, <<"d","a","y","s">> }

Ago == <<"a","g","o">>

\* \s+ago without the $ : whatever follows "ago" is let through
TailMatches_NoEnd(s) ==
  LET w == LeadingRun(s, WhiteSpace)
      r == SubSeq(s, w + 1, Len(s))
  IN  w >= 1 /\ PrefixCI(Ago, r)

\* \s+ago$ : at least one white space, then "ago", then the end
TailMatches(s) ==
  LET w == LeadingRun(s, WhiteSpace)
      r == SubSeq(s, w + 1, Len(s))
  IN  w >= 1 /\ Len(r) = Len(Ago) /\ PrefixCI(Ago, r)

\* the unit words u for which  u\s+ago$  matches s
UnitsMatching(s) ==
  { u \in UnitWords : PrefixCI(u, s) /\ TailMatches(SubSeq(s, Len(u) + 1, Len(s))) }

\* /^(\d+)\s+(minute|minutes|hour|hours|day|days)\s+ago$/i
\* the match as [ok, digits, unit]; \d and \s are disjoint and no unit word
\* starts with either, so both runs are the maximal ones
RegexMatch(s) ==
  LET d  == LeadingRun(s, Digits)
      r1 == SubSeq(s, d + 1, Len(s))
      w  == LeadingRun(r1, WhiteSpace)
      r2 == SubSeq(r1, w + 1, Len(r1))
      us == UnitsMatching(r2)
  IN  IF d >= 1 /\ w >= 1 /\ us # {}
      THEN [ok |-> TRUE, digits |-> SubSeq(s, 1, d),
            unit |-> [k \in 1..Len(CHOOSE u \in us : TRUE) |-> toLowerCase(r2[k])]]
      ELSE [ok |-> FALSE, digits |-> <<>>, unit |-> <<>>]

startsWith(s, w) == Len(s) >= Len(w) /\ SubSeq(s, 1, Len(w)) = w

\* null where a number in limbs is expected
NullDouble == <<Null>>

\* parseAgeToSeconds with one factor of 60 missing for hours
parseAgeToDouble_HourAsMinute(ageText) ==
  LET m == RegexMatch(trim(ageText))
  IN  IF ~m.ok THEN NullDouble
      ELSE LET n == Number(m.digits)
           IN  IF startsWith(m.unit, <<"m","i","n","u","t","e">>) THEN Times(n, 60)
               ELSE IF startsWith(m.unit, <<"h","o","u","r">>) THEN Times(n, 60)
               ELSE IF startsWith(m.unit, <<"d","a","y">>)
                    THEN Times(Times(Times(n, 24), 60), 60)
               ELSE NullDouble

\* parseAgeToSeconds, its result in limbs
parseAgeToDouble(ageText) ==
  LET m == RegexMatch(trim(ageText))
  IN  IF ~m.ok THEN NullDouble
      ELSE LET n == Number(m.digits)
           IN  IF startsWith(m.unit, <<"m","i","n","u","t","e">>) THEN Times(n, 60)
               ELSE IF startsWith(m.unit, <<"h","o","u","r">>)
                    THEN Times(Times(n, 60), 60)
               ELSE IF startsWith(m.unit, <<"d","a","y">>)
                    THEN Times(Times(Times(n, 24), 60), 60)
               ELSE NullDouble

\* parseAgeToSeconds, its result as a number of the model (small ages)
parseAgeToSeconds(ageText) ==
  LET b == parseAgeToDouble(ageText)
  IN  IF b = NullDouble THEN Null ELSE ValueOf(b)

(***************************************************************************)
(* Sequence validator.                                                     *)
(***************************************************************************)
\* filler for the item fields of a verdict that carries no pair
NoItem == [id |-> "", title |-> "", age |-> <<>>, ageSeconds |-> Null]

\* { ok: true }; the fields a violation carries are blank
OkVerdict ==
  [ok |-> TRUE, kind |-> "", index |-> 0, message |-> <<>>,
   prev |-> NoItem, curr |-> NoItem]

\* validationResult before the validator has run (null)
NullVerdict ==
  [ok |-> FALSE, kind |-> "null", index |-> 0, message |-> <<>>,
   prev |-> NoItem, curr |-> NoItem]

\* JavaScript's number conversion in a relational comparison: null is 0
ToNumber(a) == IF a = Null THEN 0 ELSE a

\* validateFrom with the order test placed before the null test
RECURSIVE validateFrom_OrderFirst(_, _)
validateFrom_OrderFirst(items, i) ==
  IF ~(i < Len(items)) THEN OkVerdict
  ELSE LET prev == items[i]
           curr == items[i + 1]
       IN  IF ToNumber(curr.ageSeconds) < ToNumber(prev.ageSeconds)
           THEN [ok |-> FALSE, kind |-> "SORT_VIOLATION", index |-> i,
                 message |-> <<"Sorting violation at position", i + 1,
                               prev.title, prev.age, prev.ageSeconds, prev.id,
                               curr.title, curr.age, curr.ageSeconds, curr.id>>,
                 prev |-> prev, curr |-> curr]
           ELSE IF prev.ageSeconds = Null \/ curr.ageSeconds = Null
           THEN [ok |-> FALSE, kind |-> "PARSE_ERROR", index |-> i,
                 message |-> <<"Could not parse age string(s).",
                               prev.age, prev.id, curr.age, curr.id>>,
                 prev |-> prev, curr |-> curr]
           ELSE validateFrom_OrderFirst(items, i + 1)

\* validateFrom with <= in the order test: equal ages are rejected
RECURSIVE validateFrom_Strict(_, _)
validateFrom_Strict(items, i) ==
  IF ~(i < Len(items)) THEN OkVerdict
  ELSE LET prev == items[i]
           curr == items[i + 1]
       IN  IF prev.ageSeconds = Null \/ curr.ageSeconds = Null
           THEN [ok |-> FALSE, kind |-> "PARSE_ERROR", index |-> i,
                 message |-> <<"Could not parse age string(s).",
                               prev.age, prev.id, curr.age, curr.id>>,
                 prev |-> prev, curr |-> curr]
           ELSE IF curr.ageSeconds <= prev.ageSeconds
           THEN [ok |-> FALSE, kind |-> "SORT_VIOLATION", index |-> i,
                 message |-> <<"Sorting violation at position", i + 1,
                               prev.title, prev.age, prev.ageSeconds, prev.id,
                               curr.title, curr.age, curr.ageSeconds, curr.id>>,
                 prev |-> prev, curr |-> curr]
           ELSE validateFrom_Strict(items, i + 1)

\* validateFrom with the null test on the later item only
RECURSIVE validateFrom_CurrOnly(_, _)
validateFrom_CurrOnly(items, i) ==
  IF ~(i < Len(items)) THEN OkVerdict
  ELSE LET prev == items[i]
           curr == items[i + 1]
       IN  IF curr.ageSeconds = Null
           THEN [ok |-> FALSE, kind |-> "PARSE_ERROR", index |-> i,
                 message |-> <<"Could not parse age string(s).",
                               prev.age, prev.id, curr.age, curr.id>>,
                 prev |-> prev, curr |-> curr]
           ELSE IF curr.ageSeconds < ToNumber(prev.ageSeconds)
           THEN [ok |-> FALSE, kind |-> "SORT_VIOLATION", index |-> i,
                 message |-> <<"Sorting violation at position", i + 1,
                               prev.title, prev.age, prev.ageSeconds, prev.id,
                               curr.title, curr.age, curr.ageSeconds, curr.id>>,
                 prev |-> prev, curr |-> curr]
           ELSE validateFrom_CurrOnly(items, i + 1)

\* the loop  for (let i = 1; i < items.length; i++)  from index i on;
\* items[i] of the source is items[i + 1] here
RECURSIVE validateFrom(_, _)
validateFrom(items, i) ==
  IF ~(i < Len(items)) THEN OkVerdict
  ELSE LET prev == items[i]
           curr == items[i + 1]
       IN  IF prev.ageSeconds = Null \/ curr.ageSeconds = Null
           THEN [ok |-> FALSE, kind |-> "PARSE_ERROR", index |-> i,
                 message |-> <<"Could not parse age string(s).",
                               prev.age, prev.id, curr.age, curr.id>>,
                 prev |-> prev, curr |-> curr]
           ELSE IF curr.ageSeconds < prev.ageSeconds
           THEN [ok |-> FALSE, kind |-> "SORT_VIOLATION", index |-> i,
                 message |-> <<"Sorting violation at position", i + 1,
                               prev.title, prev.age, prev.ageSeconds, prev.id,
                               curr.title, curr.age, curr.ageSeconds, curr.id>>,
                 prev |-> prev, curr |-> curr]
           ELSE validateFrom(items, i + 1)

\* the validator with its loop started at i = 2
validateSortedNewestToOldest_FromTwo(items) == validateFrom(items, 2)

validateSortedNewestToOldest(items) == validateFrom(items, 1)

(***************************************************************************)
(* State of one run (the anonymous async function) and of its world.       *)
(***************************************************************************)
VARIABLES
  COUNT,            \* Number(process.env.COUNT || 100)
  ARTIFACTS,        \* on_fail | always | off
  TRACE,            \* on_fail | always | off
  pc,               \* the statement the run is at
  browser,          \* "none" | "open" | "closed"
  context,          \* "none" | "open" | "closed"
  tracing,          \* context.tracing is recording
  pagesVisited,
  collected,        \* sequence of items {id, title, age, ageSeconds}
  seen,             \* set of identifiers
  rowsLeft,         \* rows of pageItems the for loop has not read yet
  it,               \* the row the for loop is at; NoRow outside the loop
  validationResult,
  status,
  detail,
  exitCode,         \* process.exitCode; Null while unset
  thrown,           \* message of the exception on its way to the catch block
  passPrinted,      \* the PASS line was written to the console
  summaries,        \* arguments of the writeSummary calls, in order
  artifacts,        \* labels of the artifact sets written
  fetches,          \* getItemsOnPage calls that returned a batch
  navs,             \* "More" clicks that completed
  parsed,           \* parseAgeToSeconds calls made by the loop
  validatedOn,      \* lengths of the sequences the validator was run on
  noNextPage,       \* the feed had no "More" link when the run waited for it
  order,            \* non-empty identifiers in order of first encounter
  fetchCalls,       \* getItemsOnPage calls made, resolved or not
  inFlight,         \* promises of Promise.all started and not settled
  firstRec,         \* identifier -> the first row read with it
  vItems,           \* validator on its own: the input sequence
  vInput,           \* validator on its own: the input as first given
  vVerdict,         \* validator on its own: the last verdict
  vPrev,            \* validator on its own: the verdict before the last
  vRuns,            \* validator on its own: calls made
  pShape,           \* age parser on its own: the parts the text is made of
  pText,            \* age parser on its own: the text
  pOut,             \* age parser on its own: the result, in limbs
  pRuns             \* age parser on its own: calls made

cfgvars  == <<COUNT, ARTIFACTS, TRACE>>
sessvars == <<browser, context, tracing>>
collvars == <<collected, seen, rowsLeft, it, parsed, order, firstRec>>
pagevars == <<pagesVisited, fetches, navs, noNextPage, fetchCalls, inFlight>>
resvars  == <<validationResult, status, detail, exitCode, passPrinted, validatedOn>>
outvars  == <<summaries, artifacts>>
parsevars == <<pShape, pText, pOut, pRuns>>
valvars  == <<vItems, vInput, vVerdict, vPrev, vRuns, parsevars>>
vars == <<cfgvars, pc, sessvars, collvars, pagevars, resvars, thrown, outvars, valvars>>

(***************************************************************************)
(* Rows a page can yield (getItemsOnPage): id may be empty, age is the     *)
(* text of span.age or empty.                                              *)
(***************************************************************************)
Ids == {"", "a", "b", "c"}

Titles == {"t", "u"}

TwoMinutesAgo == <<"2"," ","m","i","n","u","t","e","s"," ","a","g","o">>

OneHourAgo == <<"1"," ","H","o","u","r"," "," ","a","g","o">>

AgeTexts == {TwoMinutesAgo, OneHourAgo, <<>>}

\* every id with every age text, and one row that repeats an id under
\* another title
Rows ==
  [id : Ids, title : {"t"}, age : AgeTexts]
    \cup [id : {"a"}, title : Titles, age : {TwoMinutesAgo}]

\* the loop variable `it` outside the for loop
NoRow == [id |-> "", title |-> "", age |-> <<>>]

Modes == {"on_fail", "always", "off"}

(***************************************************************************)
(* Messages of the errors the collaborator calls reject with.              *)
(***************************************************************************)
LaunchError       == <<"browserType.launch failed">>
NewContextError   == <<"browser.newContext failed">>
NewPageError      == <<"context.newPage failed">>
TraceStartError   == <<"tracing.start failed">>
GotoError         == <<"page.goto failed">>
GetItemsError     == <<"page.waitForSelector: Timeout exceeded">>
MoreWaitForError  == <<"locator.waitFor: Timeout exceeded">>
MoreClickError    == <<"locator.click failed">>
ArtifactsError    == <<"writeArtifacts failed">>
SummaryError      == <<"writeSummary failed">>
ContextCloseError == <<"context.close failed">>
BrowserCloseError == <<"browser.close failed">>

\* `Expected EXACTLY ${COUNT} items, got ${collected.length}.`
ExpectedExactly(count, got) == <<"Expected EXACTLY", count, "items, got", got>>

(***************************************************************************)
(* Init: the state when the async function is entered, with the module's   *)
(* configuration read from the environment.                                *)
(***************************************************************************)
RunInit ==
  /\ pc = "launch"
  /\ browser = "none" /\ context = "none" /\ tracing = FALSE
  /\ pagesVisited = 0
  /\ collected = <<>> /\ seen = {} /\ rowsLeft = 0 /\ it = NoRow
  /\ validationResult = NullVerdict
  /\ status = "FAIL" /\ detail = <<>>
  /\ exitCode = Null
  /\ thrown = <<>>
  /\ passPrinted = FALSE
  /\ summaries = <<>> /\ artifacts = <<>>
  /\ fetches = 0 /\ navs = 0 /\ parsed = 0
  /\ fetchCalls = 0 /\ inFlight = {}
  /\ validatedOn = <<>>
  /\ noNextPage = FALSE
  /\ order = <<>>
  /\ firstRec = [i \in {} |-> NoItem]

\* the parts of an age text: white space in front, count, white space, unit
\* word, white space, "ago", white space behind
NoShape ==
  [lead |-> <<>>, count |-> <<>>, ws1 |-> <<>>, unit |-> <<>>, ws2 |-> <<>>,
   ago |-> <<>>, trail |-> <<>>]

\* the age parser on its own has not been given anything
ParserIdle ==
  pShape = NoShape /\ pText = <<>> /\ pOut = NullDouble /\ pRuns = 0

Init ==
  /\ COUNT \in 1..MaxCount
  /\ ARTIFACTS \in Modes
  /\ TRACE \in Modes
  /\ RunInit
  /\ vItems = <<>> /\ vInput = <<>>
  /\ vVerdict = NullVerdict /\ vPrev = NullVerdict /\ vRuns = 0
  /\ ParserIdle

(***************************************************************************)
(* Control flow helpers.                                                   *)
(***************************************************************************)
\* a failed call that is made again instead of being thrown
Throw_Retry(msg) == thrown' = msg /\ pc' = pc

\* an exception thrown inside the try block: control goes to the catch block
Throw(msg) == thrown' = msg /\ pc' = "catch"

\* an exception outside the try block, or out of the finally block: the
\* promise of the async function rejects and nothing handles it
Reject(msg) == thrown' = msg /\ pc' = "crashed"

shouldTraceAlways == TRACE = "always"

shouldTraceOnFail == TRACE = "on_fail"

\* first statement of the finally block that has something to do
FinallyEntry == IF shouldTraceAlways THEN "finallyTraceStop" ELSE "writeSummary"

\* after the catch block's tracing.start: artifacts, then tracing.stop
AfterCatchTraceStart ==
  IF ARTIFACTS = "on_fail" \/ ARTIFACTS = "always" THEN "catchArtifacts"
  ELSE IF shouldTraceOnFail /\ ~shouldTraceAlways THEN "catchTraceStop"
  ELSE FinallyEntry

AfterCatchArtifacts ==
  IF shouldTraceOnFail /\ ~shouldTraceAlways THEN "catchTraceStop" ELSE FinallyEntry

(***************************************************************************)
(* Session set-up, outside the try block.                                  *)
(***************************************************************************)
Launch ==
  /\ pc = "launch"
  /\ \/ browser' = "open" /\ pc' = "newContext" /\ UNCHANGED thrown
     \/ Reject(LaunchError) /\ UNCHANGED browser
  /\ UNCHANGED <<cfgvars, context, tracing, collvars, pagevars, resvars, outvars, valvars>>

NewContext ==
  /\ pc = "newContext"
  /\ \/ context' = "open" /\ pc' = "newPage" /\ UNCHANGED thrown
     \/ Reject(NewContextError) /\ UNCHANGED context
  /\ UNCHANGED <<cfgvars, browser, tracing, collvars, pagevars, resvars, outvars, valvars>>

NewPage ==
  /\ pc = "newPage"
  /\ \/ /\ pc' = IF shouldTraceAlways THEN "traceStart" ELSE "goto"
        /\ UNCHANGED thrown
     \/ Reject(NewPageError)
  /\ UNCHANGED <<cfgvars, sessvars, collvars, pagevars, resvars, outvars, valvars>>

TraceStartAlways ==
  /\ pc = "traceStart"
  /\ \/ tracing' = TRUE /\ pc' = "goto" /\ UNCHANGED thrown
     \/ Reject(TraceStartError) /\ UNCHANGED tracing
  /\ UNCHANGED <<cfgvars, browser, context, collvars, pagevars, resvars, outvars, valvars>>

(***************************************************************************)
(* The try block: load, collect across pages, validate.                    *)
(***************************************************************************)
\* where the run goes when the for loop over pageItems is left
AfterFor(c) == IF Len(c) < COUNT THEN "moreWaitFor" ELSE "checkCount"

Goto ==
  /\ pc = "goto"
  /\ \/ /\ pagesVisited' = pagesVisited + 1
        /\ pc' = IF Len(collected) < COUNT THEN "getItems" ELSE "checkCount"
        /\ UNCHANGED thrown
     \/ Throw(GotoError) /\ UNCHANGED pagesVisited
  /\ UNCHANGED <<cfgvars, sessvars, collvars, fetches, navs, noNextPage,
                 fetchCalls, inFlight, resvars, outvars, valvars>>

\* pageItems = await getItemsOnPage(page): at least one tr.athing row
getItemsOnPage ==
  /\ pc = "getItems"
  /\ fetchCalls' = fetchCalls + 1
  /\ \/ /\ \E n \in 1..MaxBatch : rowsLeft' = n
        /\ fetches' = fetches + 1
        /\ pc' = "for"
        /\ UNCHANGED thrown
     \/ Throw(GetItemsError) /\ UNCHANGED <<rowsLeft, fetches>>
  /\ UNCHANGED <<cfgvars, sessvars, collected, seen, it, parsed, order, firstRec,
                 pagesVisited, navs, noNextPage, inFlight, resvars, outvars,
                 valvars>>

\* { ...it, ageSeconds: parseAgeToSeconds(it.age) }
Item(r) ==
  [id |-> r.id, title |-> r.title, age |-> r.age,
   ageSeconds |-> parseAgeToSeconds(r.age)]

\* the skip test without the seen set
Skips_NoSeen(r, seenIds) == r.id = ""

\* !it.id || seen.has(it.id)
Skips(r, seenIds) == r.id = "" \/ r.id \in seenIds

\* the for loop without its break
LeavesFor_NoBreak(c, left, pushed) == left = 0

\* the for loop is left: pageItems is used up, or the break at COUNT
LeavesFor(c, left, pushed) == left = 0 \/ (pushed /\ Len(c) = COUNT)

\* one iteration of  for (const it of pageItems)
AcceptRecord ==
  /\ pc = "for"
  /\ rowsLeft > 0
  /\ \E row \in Rows :
       /\ rowsLeft' = rowsLeft - 1
       /\ IF row.id # "" /\ row.id \notin DOMAIN firstRec
          THEN /\ order' = Append(order, row.id)
               /\ firstRec' = [i \in DOMAIN firstRec \cup {row.id} |->
                                 IF i = row.id THEN row ELSE firstRec[i]]
          ELSE UNCHANGED <<order, firstRec>>
       /\ IF Skips(row, seen)
          THEN UNCHANGED <<collected, seen, parsed>>
          ELSE /\ seen' = seen \cup {row.id}
               /\ collected' = Append(collected, Item(row))
               /\ parsed' = parsed + 1
       /\ IF LeavesFor(collected', rowsLeft', ~Skips(row, seen))
          THEN pc' = AfterFor(collected') /\ it' = NoRow
          ELSE pc' = "for" /\ it' = row
  /\ UNCHANGED <<cfgvars, sessvars, pagevars, resvars, thrown, outvars, valvars>>

\* await more.waitFor({ state: 'visible', timeout }): the link shows up, or
\* the feed has no further page, or the link does not show up in time
MoreWaitFor ==
  /\ pc = "moreWaitFor"
  /\ \/ /\ navs < MaxPages
        /\ pc' = "moreClick"
        /\ UNCHANGED <<thrown, noNextPage>>
     \/ Throw(MoreWaitForError) /\ noNextPage' = TRUE
     \/ Throw(MoreWaitForError) /\ UNCHANGED noNextPage
  /\ UNCHANGED <<cfgvars, sessvars, collvars, pagesVisited, fetches, navs,
                 fetchCalls, inFlight, resvars, outvars, valvars>>

\* the two promises handed to Promise.all
PageOps == {"waitForLoadState", "click"}

\* Promise.all([page.waitForLoadState('domcontentloaded'), more.click()]):
\* both calls are made before anything is awaited
MoreClick ==
  /\ pc = "moreClick"
  /\ inFlight' = PageOps
  /\ pc' = "promiseAll"
  /\ UNCHANGED <<cfgvars, sessvars, collvars, pagesVisited, fetches, navs,
                 noNextPage, fetchCalls, resvars, thrown, outvars, valvars>>

\* one of the two promises resolves
Resolves ==
  /\ pc = "promiseAll"
  /\ \E op \in inFlight : inFlight' = inFlight \ {op}
  /\ UNCHANGED <<cfgvars, pc, sessvars, collvars, pagesVisited, fetches, navs,
                 noNextPage, fetchCalls, resvars, thrown, outvars, valvars>>

\* one of the two promises rejects: Promise.all rejects at once and the
\* await throws, while the other promise, if not settled, stays pending
Rejects ==
  /\ pc = "promiseAll"
  /\ \E op \in inFlight : inFlight' = inFlight \ {op}
  /\ Throw(MoreClickError)
  /\ UNCHANGED <<cfgvars, sessvars, collvars, pagesVisited, fetches, navs,
                 noNextPage, fetchCalls, resvars, outvars, valvars>>

\* a Promise.all whose result is used without awaiting it
Fulfilled_NoAwait(flight) == TRUE

\* Promise.all fulfils once every promise has resolved
Fulfilled(flight) == flight = {}

\* the await returns without counting the page
AfterPromiseAll_NoCount ==
  /\ pc = "promiseAll"
  /\ Fulfilled(inFlight)
  /\ navs' = navs + 1
  /\ pc' = IF Len(collected) < COUNT THEN "getItems" ELSE "checkCount"
  /\ UNCHANGED <<cfgvars, sessvars, collvars, pagesVisited, fetches, noNextPage,
                 fetchCalls, inFlight, resvars, thrown, outvars, valvars>>

\* await Promise.all([...]) returns; pagesVisited++
AfterPromiseAll ==
  /\ pc = "promiseAll"
  /\ Fulfilled(inFlight)
  /\ pagesVisited' = pagesVisited + 1
  /\ navs' = navs + 1
  /\ pc' = IF Len(collected) < COUNT THEN "getItems" ELSE "checkCount"
  /\ UNCHANGED <<cfgvars, sessvars, collvars, fetches, noNextPage, fetchCalls,
                 inFlight, resvars, thrown, outvars, valvars>>

\* if (collected.length !== COUNT) throw
CheckCount ==
  /\ pc = "checkCount"
  /\ IF Len(collected) # COUNT
     THEN Throw(ExpectedExactly(COUNT, Len(collected)))
     ELSE pc' = "validate" /\ UNCHANGED thrown
  /\ UNCHANGED <<cfgvars, sessvars, collvars, pagevars, resvars, outvars, valvars>>

\* a verdict that never makes the run throw
ThrowsOn_Never(v) == FALSE

\* if (!validationResult.ok) throw new Error(validationResult.message)
ThrowsOn(v) == ~v.ok

\* validationResult = validate(collected); throw on a violation, else PASS
Validate ==
  /\ pc = "validate"
  /\ validationResult' = validateSortedNewestToOldest(collected)
  /\ validatedOn' = Append(validatedOn, Len(collected))
  /\ IF ThrowsOn(validationResult')
     THEN /\ Throw(validationResult'.message)
          /\ UNCHANGED <<status, passPrinted, exitCode>>
     ELSE /\ status' = "PASS"
          /\ passPrinted' = TRUE
          /\ exitCode' = 0
          /\ pc' = IF ARTIFACTS = "always" THEN "passArtifacts" ELSE FinallyEntry
          /\ UNCHANGED thrown
  /\ UNCHANGED <<cfgvars, sessvars, collvars, pagevars, detail, outvars, valvars>>

\* writeArtifacts: the files are written, or one of the writes throws
writeArtifacts(label, onOk, onFail) ==
  \/ /\ ARTIFACTS # "off"
     /\ artifacts' = Append(artifacts, label)
     /\ onOk
  \/ /\ ARTIFACTS # "off"
     /\ UNCHANGED artifacts
     /\ onFail
  \/ /\ ARTIFACTS = "off"
     /\ UNCHANGED artifacts
     /\ onOk

\* if (ARTIFACTS === 'always') await writeArtifacts({ label: 'pass', ... })
PassArtifacts ==
  /\ pc = "passArtifacts"
  /\ writeArtifacts("pass",
                    pc' = FinallyEntry /\ UNCHANGED thrown,
                    Throw(ArtifactsError))
  /\ UNCHANGED <<cfgvars, sessvars, collvars, pagevars, resvars, summaries, valvars>>

(***************************************************************************)
(* The catch block.                                                        *)
(***************************************************************************)
\* detail = msg; process.exitCode = 1
Catch ==
  /\ pc = "catch"
  /\ detail' = thrown
  /\ exitCode' = 1
  /\ pc' = IF shouldTraceOnFail /\ ~shouldTraceAlways THEN "catchTraceStart"
           ELSE AfterCatchTraceStart
  /\ UNCHANGED <<cfgvars, sessvars, collvars, pagevars, validationResult, status,
                 passPrinted, validatedOn, thrown, outvars, valvars>>

\* await context.tracing.start(...).catch(() => {})
CatchTraceStart ==
  /\ pc = "catchTraceStart"
  /\ tracing' \in {TRUE, tracing}
  /\ pc' = AfterCatchTraceStart
  /\ UNCHANGED <<cfgvars, browser, context, collvars, pagevars, resvars, thrown,
                 outvars, valvars>>

\* await writeArtifacts({ label: 'fail', ... }).catch(() => {})
CatchArtifacts ==
  /\ pc = "catchArtifacts"
  /\ writeArtifacts("fail", pc' = AfterCatchArtifacts, pc' = AfterCatchArtifacts)
  /\ UNCHANGED <<cfgvars, sessvars, collvars, pagevars, resvars, thrown, summaries,
                 valvars>>

\* await context.tracing.stop({ path }).catch(() => {})
CatchTraceStop ==
  /\ pc = "catchTraceStop"
  /\ tracing' \in {FALSE, tracing}
  /\ pc' = FinallyEntry
  /\ UNCHANGED <<cfgvars, browser, context, collvars, pagevars, resvars, thrown,
                 outvars, valvars>>

(***************************************************************************)
(* The finally block.                                                      *)
(***************************************************************************)
\* if (shouldTraceAlways) await context.tracing.stop({ path }).catch(() => {})
FinallyTraceStop ==
  /\ pc = "finallyTraceStop"
  /\ tracing' \in {FALSE, tracing}
  /\ pc' = "writeSummary"
  /\ UNCHANGED <<cfgvars, browser, context, collvars, pagevars, resvars, thrown,
                 outvars, valvars>>

\* writeSummary({ count, pagesVisited, status, detail }): the call is recorded
\* whether or not the file is written; a throw leaves the finally block
writeSummary ==
  /\ pc = "writeSummary"
  /\ summaries' = Append(summaries,
                         [count |-> COUNT, pagesVisited |-> pagesVisited,
                          status |-> status, detail |-> detail])
  /\ \/ pc' = "contextClose" /\ UNCHANGED thrown
     \/ Reject(SummaryError)
  /\ UNCHANGED <<cfgvars, sessvars, collvars, pagevars, resvars, artifacts, valvars>>

\* await context.close()
ContextClose ==
  /\ pc = "contextClose"
  /\ \/ context' = "closed" /\ pc' = "browserClose" /\ UNCHANGED thrown
     \/ Reject(ContextCloseError) /\ UNCHANGED context
  /\ UNCHANGED <<cfgvars, browser, tracing, collvars, pagevars, resvars, outvars,
                 valvars>>

\* await browser.close()
BrowserClose ==
  /\ pc = "browserClose"
  /\ \/ browser' = "closed" /\ pc' = "done" /\ UNCHANGED thrown
     \/ Reject(BrowserCloseError) /\ UNCHANGED browser
  /\ UNCHANGED <<cfgvars, context, tracing, collvars, pagevars, resvars, outvars,
                 valvars>>

Next ==
  \/ Launch \/ NewContext \/ NewPage \/ TraceStartAlways
  \/ Goto \/ getItemsOnPage \/ AcceptRecord \/ MoreWaitFor \/ MoreClick
  \/ Resolves \/ Rejects \/ AfterPromiseAll
  \/ CheckCount \/ Validate \/ PassArtifacts
  \/ Catch \/ CatchTraceStart \/ CatchArtifacts \/ CatchTraceStop
  \/ FinallyTraceStop \/ writeSummary \/ ContextClose \/ BrowserClose

Spec == Init /\ [][Next]_vars

(***************************************************************************)
(* The run against a feed without a last page: the next-page link may show *)
(* up after every page.  The counters stop at LiveCap ("LiveCap or more")  *)
(* so that the states of an endless run are finitely many; every external  *)
(* call settles, so a step that can be taken is eventually taken.          *)
(***************************************************************************)
LiveCap == MaxPages + 1

UpTo(n, cap) == IF n < cap THEN n + 1 ELSE n

\* pageItems = await getItemsOnPage(page)
getItemsOnPageLive ==
  /\ pc = "getItems"
  /\ fetchCalls' = UpTo(fetchCalls, LiveCap)
  /\ \/ /\ \E n \in 1..MaxBatch : rowsLeft' = n
        /\ fetches' = UpTo(fetches, LiveCap)
        /\ pc' = "for"
        /\ UNCHANGED thrown
     \/ Throw(GetItemsError) /\ UNCHANGED <<rowsLeft, fetches>>
  /\ UNCHANGED <<cfgvars, sessvars, collected, seen, it, parsed, order, firstRec,
                 pagesVisited, navs, noNextPage, inFlight, resvars, outvars,
                 valvars>>

\* await more.waitFor({ state: 'visible', timeout })
MoreWaitForLive ==
  /\ pc = "moreWaitFor"
  /\ \/ pc' = "moreClick" /\ UNCHANGED <<thrown, noNextPage>>
     \/ Throw(MoreWaitForError) /\ noNextPage' = TRUE
     \/ Throw(MoreWaitForError) /\ UNCHANGED noNextPage
  /\ UNCHANGED <<cfgvars, sessvars, collvars, pagesVisited, fetches, navs,
                 fetchCalls, inFlight, resvars, outvars, valvars>>

\* await Promise.all([...]) returns; pagesVisited++
AfterPromiseAllLive ==
  /\ pc = "promiseAll"
  /\ Fulfilled(inFlight)
  /\ pagesVisited' = UpTo(pagesVisited, LiveCap)
  /\ navs' = UpTo(navs, LiveCap)
  /\ pc' = IF Len(collected) < COUNT THEN "getItems" ELSE "checkCount"
  /\ UNCHANGED <<cfgvars, sessvars, collvars, fetches, noNextPage, fetchCalls,
                 inFlight, resvars, thrown, outvars, valvars>>

NextLive ==
  \/ Launch \/ NewContext \/ NewPage \/ TraceStartAlways
  \/ Goto \/ getItemsOnPageLive \/ AcceptRecord \/ MoreWaitForLive \/ MoreClick
  \/ Resolves \/ Rejects \/ AfterPromiseAllLive
  \/ CheckCount \/ Validate \/ PassArtifacts
  \/ Catch \/ CatchTraceStart \/ CatchArtifacts \/ CatchTraceStop
  \/ FinallyTraceStop \/ writeSummary \/ ContextClose \/ BrowserClose

SpecLive == Init /\ [][NextLive]_vars /\ WF_vars(NextLive)

(***************************************************************************)
(* The validator on its own: any sequence of up to MaxLen items whose ages *)
(* are absent or one of a few numbers of seconds.                          *)
(***************************************************************************)
VAges == {Null, 60, 90, 120, 200}

VItem(a) == [id |-> "a", title |-> "t", age |-> <<>>, ageSeconds |-> a]

VInputs ==
  UNION { { [k \in 1..n |-> VItem(ages[k])] : ages \in [1..n -> VAges] } : n \in 0..MaxLen }

InitValidate ==
  /\ COUNT = 1 /\ ARTIFACTS = "on_fail" /\ TRACE = "on_fail"
  /\ RunInit
  /\ vItems \in VInputs
  /\ vInput = vItems
  /\ vVerdict = NullVerdict
  /\ vPrev = NullVerdict
  /\ vRuns = 0
  /\ ParserIdle

\* verdict = validateSortedNewestToOldest(items), called up to twice
ValidateItems ==
  /\ vRuns < 2
  /\ vVerdict' = validateSortedNewestToOldest(vItems)
  /\ vPrev' = vVerdict
  /\ vRuns' = vRuns + 1
  /\ UNCHANGED <<vItems, vInput, parsevars>>
  /\ UNCHANGED <<cfgvars, pc, sessvars, collvars, pagevars, resvars, thrown, outvars>>

NextValidate == ValidateItems

SpecValidate == InitValidate /\ [][NextValidate]_vars

(***************************************************************************)
(* The age parser on its own: a text put together from parts, each of      *)
(* which is as the grammar  count, white space, unit word, white space,    *)
(* "ago"  wants it or not.                                                 *)
(***************************************************************************)
\* counts in decimal digits: small ones, one with leading zeros, the
\* largest count of days below 2^53 seconds, and counts beyond what a
\* double holds exactly
GoodCounts ==
  { <<"0">>,
    <<"1">>,
    <<"2">>,
    <<"3">>,
    <<"0","0","7">>,
    <<"4","5">>,
    <<"1","0","4","2","4","9","9","9","1","3","7","4">>,
    <<"6","0","0","4","7","9","9","5","0","3","1","6","0","6","7">>,
    <<"9","0","0","7","1","9","9","2","5","4","7","4","0","9","9","3">> }

BadCounts == { <<>>,
    <<"-","3">>,
    <<"x">> }

GoodSpaces == { <<" ">>,
    <<"\t"," ">> }

GoodUnits ==
  UnitWords \cup { <<"M","I","N","U","T","E","S">>,
    <<"H","o","u","r">>,
    <<"d","A","y","S">> }

BadUnits == { <<>>,
    <<"w","e","e","k","s">>,
    <<"m","i","n","s">>,
    <<"y","e","s","t","e","r","d","a","y">>,
    <<"j","u","s","t"," ","n","o","w">> }

GoodAgos == { <<"a","g","o">>,
    <<"A","G","O">> }

BadAgos == { <<>>,
    <<"a","g","o","o">> }

Pads == { <<>>,
    <<" ">> }

Shapes ==
  [lead : Pads, count : GoodCounts \cup BadCounts, ws1 : GoodSpaces \cup {<<>>},
   unit : GoodUnits \cup BadUnits, ws2 : GoodSpaces \cup {<<>>},
   ago : GoodAgos \cup BadAgos, trail : Pads]

TextOf(sh) ==
  sh.lead \o sh.count \o sh.ws1 \o sh.unit \o sh.ws2 \o sh.ago \o sh.trail

InitParse ==
  /\ COUNT = 1 /\ ARTIFACTS = "on_fail" /\ TRACE = "on_fail"
  /\ RunInit
  /\ vItems = <<>> /\ vInput = <<>>
  /\ vVerdict = NullVerdict /\ vPrev = NullVerdict /\ vRuns = 0
  /\ pShape \in Shapes
  /\ pText = TextOf(pShape)
  /\ pOut = NullDouble
  /\ pRuns = 0

\* out = parseAgeToSeconds(text)
ParseText ==
  /\ pRuns = 0
  /\ pOut' = parseAgeToDouble(pText)
  /\ pRuns' = 1
  /\ UNCHANGED <<pShape, pText>>
  /\ UNCHANGED <<vItems, vInput, vVerdict, vPrev, vRuns>>
  /\ UNCHANGED <<cfgvars, pc, sessvars, collvars, pagevars, resvars, thrown, outvars>>

NextParse == ParseText

SpecParse == InitParse /\ [][NextParse]_vars

(***************************************************************************)
(* Properties.                                                             *)
(***************************************************************************)
DistinctIds(c) == \A i, j \in 1..Len(c) : i # j => c[i].id # c[j].id

Finished == pc \in {"done", "crashed"}

AgesOf(items) == [k \in 1..Len(items) |-> items[k].ageSeconds]

\* the adjacent pair whose later item is the k-th (counted from 1) fails
PairFails(items, k) ==
  \/ items[k - 1].ageSeconds = Null
  \/ items[k].ageSeconds = Null
  \/ items[k].ageSeconds < items[k - 1].ageSeconds

FailingPairs(items) == { k \in 2..Len(items) : PairFails(items, k) }

FirstFailing(items) ==
  CHOOSE k \in FailingPairs(items) : \A j \in FailingPairs(items) : k <= j

\* C1: the run is Passed (status PASS, pass line printed) only with exactly
\* COUNT collected items of pairwise distinct identifiers on which the
\* validator returned ok, and the validator is only ever run on a collected
\* sequence of exactly COUNT items.
C1_PassedOnlyOnExactCount ==
  /\ \A k \in 1..Len(validatedOn) : validatedOn[k] = COUNT
  /\ (status = "PASS" \/ passPrinted) =>
       /\ Len(collected) = COUNT
       /\ DistinctIds(collected)
       /\ validatedOn = <<COUNT>>
       /\ validationResult.ok

C1_Witness ==
  /\ pc = "done" /\ status = "PASS" /\ passPrinted
  /\ COUNT = MaxCount /\ navs >= 1 /\ Len(collected) = MaxCount

\* C2: when some adjacent pair fails, the verdict names the failing pair of
\* lowest index: index + 1 is the 1-based position of the later item, prev and
\* curr are the two items, and with both ages parsed and the later one smaller
\* the kind is SORT_VIOLATION with that position in the message; ages
\* 60, 120, 90, 200 give SORT_VIOLATION at position 3 with 120 before 90.
C2_FirstViolationReported ==
  vRuns >= 1 =>
    /\ FailingPairs(vItems) # {} =>
         LET k == FirstFailing(vItems)
         IN  /\ ~vVerdict.ok
             /\ vVerdict.index + 1 = k
             /\ vVerdict.prev = vItems[k - 1]
             /\ vVerdict.curr = vItems[k]
             /\ (/\ vItems[k - 1].ageSeconds # Null
                 /\ vItems[k].ageSeconds # Null
                 /\ vItems[k].ageSeconds < vItems[k - 1].ageSeconds)
                  => /\ vVerdict.kind = "SORT_VIOLATION"
                     /\ vVerdict.message[2] = k
    /\ AgesOf(vItems) = <<60, 120, 90, 200>> =>
         /\ vVerdict.kind = "SORT_VIOLATION"
         /\ vVerdict.index + 1 = 3
         /\ vVerdict.prev.ageSeconds = 120
         /\ vVerdict.curr.ageSeconds = 90

C2_Witness ==
  /\ vRuns >= 1
  /\ AgesOf(vItems) = <<60, 120, 90, 200>>
  /\ vVerdict.kind = "SORT_VIOLATION"

\* C3: every collected item has a non-empty identifier, no two share one, the
\* collected length never exceeds COUNT, and once it equals COUNT the
\* collected sequence never changes again (collected starts empty, so what
\* every step establishes holds in every state).
C3_CollectedSetInvariant ==
  [][/\ \A k \in 1..Len(collected') : collected'[k].id # ""
     /\ DistinctIds(collected')
     /\ Len(collected') <= COUNT
     /\ Len(collected) = COUNT => collected' = collected]_vars

C3_Witness ==
  /\ pc = "validate" /\ Len(collected) = COUNT /\ COUNT > 1 /\ fetches > 1

\* what the age parser gives for each age text a row can carry
ParsedAge == [t \in AgeTexts |-> parseAgeToSeconds(t)]

\* C4: the collected sequence is exactly the first rows read for each
\* non-empty identifier, in order of first encounter, with that row's title,
\* age text and parsed age; the seen set holds exactly those identifiers, so
\* a later row with a seen identifier changes neither.
C4_FirstOccurrenceWins ==
  /\ Len(collected) = Len(order)
  /\ \A k \in 1..Len(collected) :
       /\ collected[k].id = order[k]
       /\ collected[k].title = firstRec[order[k]].title
       /\ collected[k].age = firstRec[order[k]].age
       /\ collected[k].ageSeconds = ParsedAge[firstRec[order[k]].age]
  /\ seen = { order[k] : k \in 1..Len(order) }
  /\ (pc = "for" /\ it.id \in DOMAIN firstRec /\ it # firstRec[it.id]) =>
       \A k \in 1..Len(collected) :
         collected[k].id = it.id =>
           collected[k].title # it.title \/ collected[k].age # it.age

\* the first row of the second page repeats the identifier of the first
\* collected item under another title or age
C4_Witness ==
  /\ pc = "for" /\ fetches = 2 /\ rowsLeft = MaxBatch - 1
  /\ Len(collected) >= 1
  /\ it.id = collected[1].id
  /\ it # firstRec[it.id]

\* C5: once the COUNT-th item is appended, no further row of the batch is
\* read, parsed or collected, and no further batch is fetched or page
\* navigated to; every parsed age belongs to a collected item.
C5_TruncationDropsRest ==
  [][/\ parsed' = Len(collected')
     /\ Len(collected) = COUNT =>
          /\ UNCHANGED <<collected, seen, parsed, rowsLeft, fetches, navs, pagesVisited>>
          /\ pc' \notin {"for", "getItems", "moreWaitFor", "moreClick"}]_vars

C5_Witness ==
  /\ pc = "done" /\ status = "PASS"
  /\ Len(collected) = COUNT /\ rowsLeft > 0

\* C6: when either item of the first failing pair has no parsed age, the
\* verdict is PARSE_ERROR for that pair (index + 1 the 1-based position of the
\* later item); SORT_VIOLATION is only returned for a pair with both ages
\* parsed; ages 60, null, 90 give PARSE_ERROR at position 2.
C6_ParsePrecedence ==
  vRuns >= 1 =>
    /\ FailingPairs(vItems) # {} =>
         LET k == FirstFailing(vItems)
         IN  (vItems[k - 1].ageSeconds = Null \/ vItems[k].ageSeconds = Null)
               => /\ vVerdict.kind = "PARSE_ERROR"
                  /\ vVerdict.index + 1 = k
                  /\ vVerdict.prev = vItems[k - 1]
                  /\ vVerdict.curr = vItems[k]
    /\ vVerdict.kind = "SORT_VIOLATION" =>
         vVerdict.prev.ageSeconds # Null /\ vVerdict.curr.ageSeconds # Null
    /\ AgesOf(vItems) = <<60, Null, 90>> =>
         vVerdict.kind = "PARSE_ERROR" /\ vVerdict.index + 1 = 2

C6_Witness ==
  /\ vRuns >= 1
  /\ AgesOf(vItems) = <<60, Null, 90>>
  /\ vVerdict.kind = "PARSE_ERROR"

\* C7: a sequence whose ages are all parsed and non-decreasing (ties
\* included) is given the ok verdict; a second validation of the same
\* sequence gives the same verdict, and the items are as they were given.
C7_MonotoneIsOk ==
  vRuns >= 1 =>
    /\ ( /\ \A k \in 1..Len(vItems) : vItems[k].ageSeconds # Null
         /\ \A k \in 2..Len(vItems) :
              vItems[k].ageSeconds >= vItems[k - 1].ageSeconds )
         => vVerdict.ok
    /\ vItems = vInput
    /\ vRuns = 2 =>
         /\ vVerdict.ok = vPrev.ok
         /\ vVerdict.kind = vPrev.kind
         /\ vVerdict.index = vPrev.index

C7_Witness ==
  /\ vRuns = 2
  /\ AgesOf(vItems) = <<60, 60, 120>>
  /\ vVerdict.ok /\ vPrev.ok

\* the messages a failed page load, batch fetch or next-page wait/click
\* leaves in detail
CollaboratorErrors == {GotoError, GetItemsError, MoreWaitForError, MoreClickError}

\* C8: a run that ended because the feed had no next page while fewer than
\* COUNT items were collected is FAIL, and its detail is not that of a
\* collaborator (fetch/navigation/timeout) error nor a parse or order verdict.
C8_InsufficientItemsDistinguished ==
  (pc = "done" /\ noNextPage) =>
    /\ status = "FAIL"
    /\ Len(collected) < COUNT
    /\ detail \notin CollaboratorErrors
    /\ validationResult.kind \notin {"PARSE_ERROR", "SORT_VIOLATION"}

\* C9: when the run has ended, on whatever path, a browser that was opened
\* has been closed.
C9_SessionReleased == Finished => browser # "open"

\* C10: when the run has ended, on whatever path, writeSummary has been
\* called exactly once, with the final status and pagesVisited, and after an
\* error with status FAIL and the error's message as detail.
C10_ResultFinalizedOnce ==
  Finished =>
    /\ Len(summaries) = 1
    /\ summaries[1].status = status
    /\ summaries[1].pagesVisited = pagesVisited
    /\ thrown # <<>> => (summaries[1].status = "FAIL" /\ summaries[1].detail = thrown)

\* the messages a failed reporting write leaves in thrown
ReportingErrors == {ArtifactsError, SummaryError}

\* C11: a run whose validation verdict is ok ends with status PASS, empty
\* detail and exit code 0, and no failure of a reporting write (artifact
\* files, summary) is propagated, whatever ARTIFACTS and TRACE are.
C11_ReportingBestEffort ==
  (Finished /\ validationResult.ok) =>
    /\ status = "PASS"
    /\ detail = <<>>
    /\ exitCode = 0
    /\ thrown \notin ReportingErrors

\* C12: when the run has finished through the finally block, process.exitCode
\* is 0 exactly when the final status is PASS, and it agrees with the status
\* written to the summary.
C12_ExitCodeContract ==
  pc = "done" =>
    /\ exitCode = 0 <=> status = "PASS"
    /\ \A k \in 1..Len(summaries) :
         exitCode = 0 <=> summaries[k].status = "PASS"

\* C13: pagesVisited is 0 until the first page is loaded, becomes 1 there,
\* goes up by exactly 1 when, and only when, a next-page navigation has
\* completed, and never changes otherwise; when the run has ended it equals
\* the number of getItemsOnPage calls (with two fetched pages and COUNT
\* items collected on the second: PASS and pagesVisited = 2).
C13_PagesVisitedCounts ==
  [][/\ pc \in {"launch", "newContext", "newPage", "traceStart", "goto"}
          => pagesVisited = 0
     /\ (pc = "goto" /\ pc' # "catch") => pagesVisited' = 1
     /\ navs' # navs => (navs' = navs + 1 /\ pagesVisited' = pagesVisited + 1)
     /\ pagesVisited' # pagesVisited
          => /\ pagesVisited' = pagesVisited + 1
             /\ pc = "goto" \/ navs' = navs + 1
     /\ Finished' => pagesVisited' = fetchCalls'
     /\ (pc' = "done" /\ fetches' = 2 /\ Len(collected') = COUNT)
          => pagesVisited' = 2]_vars

C13_Witness ==
  /\ pc = "done" /\ status = "PASS"
  /\ fetches = 2 /\ navs = 1 /\ pagesVisited = 2
  /\ Len(collected) = COUNT

\* a page load, batch fetch or next-page wait/click of this run has failed
CollaboratorFailed == thrown \in CollaboratorErrors \/ detail \in CollaboratorErrors

\* C17: from the moment a page load, a batch fetch or a next-page wait/click
\* has failed, the run is FAIL and stays so: no batch is fetched, no
\* navigation is started or completed, no row is read, no item is collected,
\* the validator is not run, and control never returns to the paging loop.
C17_CollaboratorErrorsFatal ==
  [][CollaboratorFailed =>
       /\ status = "FAIL" /\ status' = "FAIL"
       /\ UNCHANGED <<collected, seen, parsed, rowsLeft, pagesVisited, fetches,
                      fetchCalls, navs, validatedOn, validationResult>>
       /\ inFlight' \subseteq inFlight
       /\ pc' \notin {"goto", "getItems", "for", "moreWaitFor", "moreClick",
                      "promiseAll", "checkCount", "validate", "passArtifacts"}
       /\ Finished' => (detail' \in CollaboratorErrors /\ exitCode' = 1)]_vars

C17_Witness ==
  /\ pc = "done" /\ status = "FAIL"
  /\ detail = MoreClickError /\ navs = 0 /\ fetches = 1
  /\ Len(collected) >= 1

\* every collected item has a parsed age
AllParsed(items) == \A k \in 1..Len(items) : items[k].ageSeconds # Null

\* C19 as stated: an ok verdict on the collected sequence, and so a PASS run,
\* for any COUNT >= 1, means every collected age label was parsed.
C19_OkMeansAllParsed ==
  /\ (validatedOn # <<>> /\ validationResult.ok) => AllParsed(collected)
  /\ status = "PASS" => AllParsed(collected)

\* C19 amended: an ok verdict on a collected sequence of two or more items,
\* and so a PASS run with COUNT >= 2, means every collected age label was
\* parsed; a single item is ok whatever its age.
C19_OkMeansAllParsedFromTwo ==
  /\ (validatedOn # <<>> /\ validationResult.ok /\ Len(collected) >= 2)
       => AllParsed(collected)
  /\ (status = "PASS" /\ COUNT >= 2) => AllParsed(collected)
  /\ (validatedOn # <<>> /\ Len(collected) = 1) => validationResult.ok

C19_Witness ==
  /\ pc = "done" /\ status = "PASS" /\ COUNT = 2
  /\ validationResult.ok /\ AllParsed(collected)
  /\ collected[1].ageSeconds < collected[2].ageSeconds

\* the identifiers of a sequence of items
IdsOf(items) == {items[k].id : k \in 1..Len(items)}

\* s is an initial part of t
IsPrefix(s, t) == Len(s) <= Len(t) /\ SubSeq(t, 1, Len(s)) = s

\* C20: after every step seen is exactly the set of identifiers of the
\* collected items and has as many elements as collected has items, and
\* collected only ever grows at its end: what it was before a step is an
\* initial part of what it is after, by at most one item.
C20_SeenMirrorsCollected ==
  [][/\ seen' = IdsOf(collected')
     /\ Cardinality(seen') = Len(collected')
     /\ IsPrefix(collected, collected')
     /\ Len(collected') <= Len(collected) + 1
     /\ seen \subseteq seen']_vars

C20_Witness ==
  /\ pc = "moreWaitFor" /\ fetches = 2
  /\ Len(collected) = 1 /\ seen = {collected[1].id}
  /\ parsed = 1

\* C18: the run starts a page load, a batch fetch, a wait for the next-page
\* link or a next-page navigation only when no earlier page operation is
\* pending; the only operations ever pending together are the two promises
\* of the one navigation inside Promise.all; the k-th getItemsOnPage call is
\* made only after k - 1 navigations have completed, each navigation is
\* started only after the batch of the page before it has been read, and
\* rows are read from the k-th batch only while the k-th page is the current
\* one.
C18_SequentialPaging ==
  /\ inFlight \subseteq PageOps
  /\ pc \in {"goto", "getItems", "for", "moreWaitFor", "moreClick",
             "checkCount", "validate"} => inFlight = {}
  /\ inFlight # {} => (pc = "promiseAll" \/ MoreClickError \in {thrown, detail})
  /\ pc = "getItems" => (fetchCalls = navs /\ fetches = navs)
  /\ pc = "for" => (fetchCalls = navs + 1 /\ fetches = navs + 1)
  /\ pc \in {"moreWaitFor", "moreClick", "promiseAll"}
       => (fetches = navs + 1 /\ rowsLeft = 0)
  /\ fetches <= fetchCalls /\ fetchCalls <= navs + 1

C18_Witness ==
  /\ pc = "for" /\ fetches = 2 /\ navs = 1 /\ inFlight = {}
  /\ rowsLeft = 1 /\ Len(collected) = 1

\* C16: when every external call settles, the run ends, whatever the pages
\* hold: it reaches the end of the finally block (or rejects) and does not
\* go on fetching pages for ever.
C16_RunTerminates == <>Finished

\* the text is  count, white space, unit word, white space, "ago"  and
\* nothing else
InGrammar(sh) ==
  /\ sh.count \in GoodCounts /\ sh.ws1 \in GoodSpaces /\ sh.unit \in GoodUnits
  /\ sh.ws2 \in GoodSpaces /\ sh.ago \in GoodAgos
  /\ sh.lead = <<>> /\ sh.trail = <<>>

\* the text is in the grammar once white space around it is taken off
InGrammarTrimmed(sh) ==
  InGrammar([sh EXCEPT !.lead = <<>>, !.trail = <<>>])

\* count times the seconds of the unit, exactly: 60 for minutes, 60 * 60 for
\* hours, 24 * 60 * 60 for days
ExactSeconds(sh) ==
  LET n == FromDigits(sh.count)
      u == toLowerCase(sh.unit[1])
  IN  IF u = "m" THEN MulAdd(n, 60, 0)
      ELSE IF u = "h" THEN MulAdd(MulAdd(n, 60, 0), 60, 0)
      ELSE MulAdd(MulAdd(MulAdd(n, 24, 0), 60, 0), 60, 0)

\* C14 as stated: for every count in decimal digits, a text of the grammar
\* is converted to exactly count * 60, count * 3600 or count * 86400.
C14_ConversionExact ==
  (pRuns = 1 /\ InGrammar(pShape)) => pOut = ExactSeconds(pShape)

\* C14 amended: a text of the grammar whose count times the seconds of its
\* unit is at most 2^53 - 1 is converted to exactly that product;
\* "3 minutes ago" gives 180, "1 hour ago" 3600 and "2 days ago" 172800.
C14_ConversionExactWhenSafe ==
  pRuns = 1 =>
    /\ (InGrammar(pShape) /\ BitLength(ExactSeconds(pShape)) <= SignificandBits)
         => pOut = ExactSeconds(pShape)
    /\ pText = <<"3"," ","m","i","n","u","t","e","s"," ","a","g","o">>
         => ValueOf(pOut) = 180
    /\ pText = <<"1"," ","h","o","u","r"," ","a","g","o">>
         => ValueOf(pOut) = 3600
    /\ pText = <<"2"," ","d","a","y","s"," ","a","g","o">>
         => ValueOf(pOut) = 172800

C14_Witness ==
  /\ pRuns = 1 /\ InGrammar(pShape)
  /\ pShape.count = <<"1","0","4","2","4","9","9","9","1","3","7","4">>
  /\ pShape.unit = <<"d","A","y","S">>
  /\ BitLength(pOut) = SignificandBits
  /\ pOut = ExactSeconds(pShape)

\* the row of a page whose age label is the text
RowOf(text) == [id |-> "a", title |-> "t", age |-> text]

\* C15 as stated: every text that is not of the grammar gives null, and the
\* item made of a row with that label has its fields and no ageSeconds.
C15_RejectsOutsideGrammar ==
  (pRuns = 1 /\ ~InGrammar(pShape)) =>
    /\ pOut = NullDouble
    /\ Item(RowOf(pText)) = [id |-> "a", title |-> "t", age |-> pText,
                             ageSeconds |-> Null]

\* C15 amended: every text that, with the white space around it taken off,
\* is not of the grammar gives null, and the item made of a row with that
\* label has its fields and no ageSeconds; a text of the grammar with white
\* space around it is parsed like the text without.
C15_RejectsOutsideTrimmedGrammar ==
  pRuns = 1 =>
    /\ ~InGrammarTrimmed(pShape) =>
         /\ pOut = NullDouble
         /\ Item(RowOf(pText)) = [id |-> "a", title |-> "t", age |-> pText,
                                  ageSeconds |-> Null]
    /\ InGrammarTrimmed(pShape) =>
         /\ pOut # NullDouble
         /\ pOut = parseAgeToDouble(trim(pText))

C15_Witness ==
  /\ pRuns = 1
  /\ pText = <<"3"," ","w","e","e","k","s"," ","a","g","o">>
  /\ pOut = NullDouble

====
